---- MODULE Spec2Model ----
(***************************************************************************)
(* A model of the Cloudinary video SaaS: the Clerk access gate             *)
(* (src/middleware.ts), the metadata endpoint POST /api/video-upload       *)
(* (src/app/api/video-upload/route.ts), the listing endpoint               *)
(* GET /api/videos, and the upload page's two-phase workflow (the page     *)
(* component video-upload/page.tsx with the helpers under src/lib).        *)
(*                                                                         *)
(* JavaScript strings that the code inspects (paths, titles, media types,  *)
(* error messages) are sequences of one-character strings, so that         *)
(* startsWith, trim and includes are computed and not assumed.             *)
(***************************************************************************)
EXTENDS Integers, Sequences, FiniteSets, TLC

VARIABLES
    nav,        \* the browser's current navigation through the access gate
    videos,     \* the persistent Video table, in insertion order
    reqs,       \* per API client: the request in flight and its response
    prisma,     \* the module-level database client shared by the handlers
    state,      \* the upload page's React state (UploadState)
    page,       \* the upload page outside React state: run position, DOM, timers
    host        \* the media host: assets it stores, upload requests it received

vars == <<nav, videos, reqs, prisma, state, page, host>>

(***************************************************************************)
(* Bounds of the model.                                                    *)
(***************************************************************************)
MaxDepth == 2       \* path segments of a navigated URL
MaxHops == 2        \* redirects the browser follows in one navigation
MaxVideos == 2      \* rows of the Video table
MaxTimers == 2      \* pending reset timers of the upload page
MaxUploads == 2     \* upload requests the media host receives

(***************************************************************************)
(* JavaScript values and string operations.                                *)
(***************************************************************************)
NULL == [t |-> "null"]
UNDEFINED == [t |-> "undefined"]

\* String.prototype.startsWith
startsWith(s, p) ==
    /\ Len(p) <= Len(s)
    /\ SubSeq(s, 1, Len(p)) = p

\* String.prototype.includes
includes(s, sub) ==
    \E i \in 1..(Len(s) - Len(sub) + 1) : SubSeq(s, i, i + Len(sub) - 1) = sub

isWhiteSpace(c) == c \in {" ", "\t", "\n"}

RECURSIVE trimStart(_)
trimStart(s) ==
    IF s # <<>> /\ isWhiteSpace(Head(s)) THEN trimStart(Tail(s)) ELSE s

RECURSIVE trimEnd(_)
trimEnd(s) ==
    IF s # <<>> /\ isWhiteSpace(s[Len(s)])
    THEN trimEnd(SubSeq(s, 1, Len(s) - 1))
    ELSE s

\* String.prototype.trim
trim(s) == trimEnd(trimStart(s))

(***************************************************************************)
(* JSON values of a request payload, and JavaScript's coercions of them.   *)
(***************************************************************************)
JStr(s) == [t |-> "string", s |-> s]
JNum(n) == [t |-> "number", n |-> n]
JBool(b) == [t |-> "boolean", b |-> b]

Digits == <<"0","1","2","3","4","5","6","7","8","9">>
isDigit(c) == \E d \in 1..10 : Digits[d] = c
digitValue(c) == (CHOOSE d \in 1..10 : Digits[d] = c) - 1

RECURSIVE parseDigits(_, _)
parseDigits(s, acc) ==
    IF s = <<>> THEN acc ELSE parseDigits(Tail(s), 10 * acc + digitValue(Head(s)))

NaN == [nan |-> TRUE, n |-> 0]
Num(n) == [nan |-> FALSE, n |-> n]

\* StringToNumber on whole seconds: the trimmed text is empty (0), an
\* optionally signed run of digits, or not a number.
stringToNumber(s) ==
    LET r == trim(s)
        neg == r # <<>> /\ Head(r) = "-"
        ds == IF r # <<>> /\ Head(r) \in {"-", "+"} THEN Tail(r) ELSE r
    IN  IF r = <<>> THEN Num(0)
        ELSE IF ds # <<>> /\ \A i \in 1..Len(ds) : isDigit(ds[i])
        THEN Num(IF neg THEN 0 - parseDigits(ds, 0) ELSE parseDigits(ds, 0))
        ELSE NaN

\* Number(value)
Number(v) ==
    CASE v.t = "undefined" -> NaN
      [] v.t = "null" -> Num(0)
      [] v.t = "boolean" -> Num(IF v.b THEN 1 ELSE 0)
      [] v.t = "number" -> Num(v.n)
      [] v.t = "string" -> stringToNumber(v.s)
      [] OTHER -> NaN

\* x || 0 for a number x: NaN and 0 are falsy
orZero(x) == IF x.nan \/ x.n = 0 THEN 0 ELSE x.n

\* value?.trim() throws a TypeError unless value is nullish or a string
trimThrows(v) == v.t \notin {"undefined", "null", "string"}
\* !value?.trim() for a value on which it does not throw
isBlank(v) == v.t \in {"undefined", "null"} \/ trim(v.s) = <<>>

TypeError(name) ==
    [name |-> "TypeError", source |-> "handler",
     message |-> name \o <<"?",".","t","r","i","m"," ","i","s"," ","n","o","t"," ","a"," ","f","u","n","c","t","i","o","n">>]

\* Array.prototype.join(', ')
RECURSIVE join(_)
join(names) ==
    IF names = <<>> THEN <<>>
    ELSE IF Len(names) = 1 THEN Head(names)
    ELSE Head(names) \o <<","," ">> \o join(Tail(names))

(***************************************************************************)
(* The metadata endpoint: POST in src/app/api/video-upload/route.ts.       *)
(***************************************************************************)
TITLE == <<"t","i","t","l","e">>
PUBLIC_ID == <<"p","u","b","l","i","c","I","d">>
VIDEO_URL == <<"v","i","d","e","o","U","r","l">>

\* A body that is no JSON text.
InvalidJson == [t |-> "invalid"]

\* videoData.<name> of the destructuring: a property of an object, undefined
\* on a primitive.
field(videoData, name) ==
    IF videoData.t = "object" THEN videoData[name] ELSE UNDEFINED

\* An endpoint that reports a payload it cannot parse as a server failure.
ErrorResponse_ParseAs500(status, error, details) ==
    [kind |-> "json",
     status |-> IF error = <<"I","n","v","a","l","i","d"," ","J","S","O","N"," ","p","a","y","l","o","a","d">> THEN 500 ELSE status,
     error |-> error, details |-> details]

ErrorResponse(status, error, details) ==
    [kind |-> "json", status |-> status, error |-> error, details |-> details]

\* The catch block of POST: the status and message for a thrown error.
POST_catch_NoForeignKey(error) ==
    IF includes(error.message, <<"U","n","i","q","u","e"," ","c","o","n","s","t","r","a","i","n","t">>)
    THEN ErrorResponse(409, <<"V","i","d","e","o"," ","w","i","t","h"," ","t","h","i","s"," ","p","u","b","l","i","c"," ","I","D"," ","a","l","r","e","a","d","y"," ","e","x","i","s","t","s">>,
                       JStr(error.message))
    ELSE ErrorResponse(500, <<"F","a","i","l","e","d"," ","t","o"," ","s","a","v","e"," ","v","i","d","e","o"," ","m","e","t","a","d","a","t","a">>,
                       JStr(IF error.message # <<>> THEN error.message
                            ELSE <<"U","n","k","n","o","w","n"," ","d","a","t","a","b","a","s","e"," ","e","r","r","o","r">>))

POST_catch_NoConflict(error) ==
    ErrorResponse(500, <<"F","a","i","l","e","d"," ","t","o"," ","s","a","v","e"," ","v","i","d","e","o"," ","m","e","t","a","d","a","t","a">>,
                  JStr(IF error.message # <<>> THEN error.message
                       ELSE <<"U","n","k","n","o","w","n"," ","d","a","t","a","b","a","s","e"," ","e","r","r","o","r">>))

POST_catch(error) ==
    LET statusCode ==
            IF includes(error.message, <<"U","n","i","q","u","e"," ","c","o","n","s","t","r","a","i","n","t">>) THEN 409
            ELSE IF includes(error.message, <<"F","o","r","e","i","g","n"," ","k","e","y"," ","c","o","n","s","t","r","a","i","n","t">>) THEN 400
            ELSE 500
        errorMessage ==
            IF includes(error.message, <<"U","n","i","q","u","e"," ","c","o","n","s","t","r","a","i","n","t">>)
            THEN <<"V","i","d","e","o"," ","w","i","t","h"," ","t","h","i","s"," ","p","u","b","l","i","c"," ","I","D"," ","a","l","r","e","a","d","y"," ","e","x","i","s","t","s">>
            ELSE IF includes(error.message, <<"F","o","r","e","i","g","n"," ","k","e","y"," ","c","o","n","s","t","r","a","i","n","t">>)
            THEN <<"I","n","v","a","l","i","d"," ","r","e","f","e","r","e","n","c","e"," ","d","a","t","a"," ","p","r","o","v","i","d","e","d">>
            ELSE <<"F","a","i","l","e","d"," ","t","o"," ","s","a","v","e"," ","v","i","d","e","o"," ","m","e","t","a","d","a","t","a">>
    IN  ErrorResponse(statusCode, errorMessage,
                      JStr(IF error.message # <<>> THEN error.message
                           ELSE <<"U","n","k","n","o","w","n"," ","d","a","t","a","b","a","s","e"," ","e","r","r","o","r">>))

\* A validation that stops at the first missing field.
missingFields_FirstOnly(title, publicId, videoUrl) ==
    IF isBlank(title) THEN <<TITLE>>
    ELSE IF isBlank(publicId) THEN <<PUBLIC_ID>>
    ELSE IF isBlank(videoUrl) THEN <<VIDEO_URL>>
    ELSE <<>>

\* The names pushed to missingFields, in the order of the three checks.
missingFields(title, publicId, videoUrl) ==
    (IF isBlank(title) THEN <<TITLE>> ELSE <<>>)
    \o (IF isBlank(publicId) THEN <<PUBLIC_ID>> ELSE <<>>)
    \o (IF isBlank(videoUrl) THEN <<VIDEO_URL>> ELSE <<>>)

\* The data object handed to prisma.video.create.
createData(videoData) ==
    LET description == field(videoData, "description")
    IN  [title |-> trim(field(videoData, "title").s),
         description |->
            IF description.t = "string" THEN trim(description.s) ELSE <<>>,
         publicId |-> trim(field(videoData, "publicId").s),
         originalSize |-> field(videoData, "originalSize"),
         compressedSize |-> field(videoData, "compressedSize"),
         duration |-> orZero(Number(field(videoData, "duration")))]

\* POST from the parse of the body to the call of prisma.video.create: the
\* response it returns early, or the data it goes on to insert.
POST_validate(body) ==
    LET title == field(body, "title")
        publicId == field(body, "publicId")
        videoUrl == field(body, "videoUrl")
        description == field(body, "description")
    IN  IF body = InvalidJson
        THEN [kind |-> "respond",
              resp |-> ErrorResponse(400, <<"I","n","v","a","l","i","d"," ","J","S","O","N"," ","p","a","y","l","o","a","d">>,
                                     JStr(<<"U","n","e","x","p","e","c","t","e","d"," ","t","o","k","e","n">>))]
        ELSE IF body = NULL
        THEN [kind |-> "respond",
              resp |-> ErrorResponse(400, <<"I","n","v","a","l","i","d"," ","J","S","O","N"," ","p","a","y","l","o","a","d">>,
                          JStr(<<"C","a","n","n","o","t"," ","r","e","a","d"," ","p","r","o","p","e","r","t","i","e","s"," ","o","f"," ","n","u","l","l">>))]
        ELSE IF trimThrows(title)
        THEN [kind |-> "respond", resp |-> POST_catch(TypeError(TITLE))]
        ELSE IF trimThrows(publicId)
        THEN [kind |-> "respond", resp |-> POST_catch(TypeError(PUBLIC_ID))]
        ELSE IF trimThrows(videoUrl)
        THEN [kind |-> "respond", resp |-> POST_catch(TypeError(VIDEO_URL))]
        ELSE IF missingFields(title, publicId, videoUrl) # <<>>
        THEN [kind |-> "respond",
              resp |-> ErrorResponse(400,
                          <<"M","i","s","s","i","n","g"," ","r","e","q","u","i","r","e","d"," ","f","i","e","l","d","s",":"," ">>
                              \o join(missingFields(title, publicId, videoUrl)),
                          UNDEFINED)]
        ELSE IF trimThrows(description)
        THEN [kind |-> "respond",
              resp |-> POST_catch(TypeError(<<"d","e","s","c","r","i","p","t","i","o","n">>))]
        ELSE [kind |-> "create", data |-> createData(body),
              videoUrl |-> videoUrl.s]

\* A response that returns the videoUrl trimmed like the stored fields.
POST_success_TrimsUrl(video, videoUrl) ==
    [kind |-> "json", status |-> 201, success |-> TRUE,
     video |-> [id |-> video.id, title |-> video.title,
                publicId |-> video.publicId, videoUrl |-> trim(videoUrl),
                createdAt |-> video.createdAt]]

\* The 201 response built from the inserted row and the client's videoUrl.
POST_success(video, videoUrl) ==
    [kind |-> "json", status |-> 201, success |-> TRUE,
     video |-> [id |-> video.id, title |-> video.title,
                publicId |-> video.publicId, videoUrl |-> videoUrl,
                createdAt |-> video.createdAt]]

(***************************************************************************)
(* The access gate: src/middleware.ts.                                     *)
(***************************************************************************)
SIGNIN == <<"/","s","i","g","n","i","n">>
SIGNUP == <<"/","s","i","g","n","u","p">>
ROOT == <<"/">>
HOME == <<"/","h","o","m","e">>
API_VIDEOS == <<"/","a","p","i","/","v","i","d","e","o","s">>
API_PREFIX == <<"/","a","p","i">>
API_VIDEO_UPLOAD ==
    <<"/","a","p","i","/","v","i","d","e","o","-","u","p","l","o","a","d">>

\* An allow-list of pages that forgets the sign-in page.
isPublicRoute_NoSignin(pathname) == pathname \in {SIGNUP, ROOT, HOME}

\* createRouteMatcher(["/signin", "/signup", "/", "/home"])
isPublicRoute(pathname) == pathname \in {SIGNIN, SIGNUP, ROOT, HOME}

\* An allow-list of APIs that lets every API path through.
isPublicApiRoute_AllApi(pathname) == startsWith(pathname, API_PREFIX)

\* createRouteMatcher(["/api/videos"])
isPublicApiRoute(pathname) == pathname \in {API_VIDEOS}

\* config.matcher, its pattern "/(api|trpc)(.*)": the gate always runs for
\* the API routes.
matcher_api(pathname) ==
    \/ startsWith(pathname, <<"/","a","p","i">>)
    \/ startsWith(pathname, <<"/","t","r","p","c">>)

\* NextResponse.redirect(new URL(target, req.url))
Redirect(target) == [kind |-> "redirect", location |-> target]
\* NextResponse.json({ error: "Unauthorized" }, { status: 401 })
Unauthorized ==
    [kind |-> "json", status |-> 401,
     error |-> <<"U","n","a","u","t","h","o","r","i","z","e","d">>]
\* NextResponse.next()
PassThrough == [kind |-> "next"]

\* Mutants of the gate: the page branch lost; the home exemption lost; the
\* 401 branch forgetting the public API allow-list.
middleware_NoPageRedirect(userId, pathname) ==
    IF userId # NULL /\ isPublicRoute(pathname) /\ pathname # HOME
    THEN Redirect(HOME)
    ELSE IF userId = NULL /\ startsWith(pathname, API_PREFIX)
            /\ ~isPublicApiRoute(pathname)
    THEN Unauthorized
    ELSE PassThrough

middleware_NoHomeExemption(userId, pathname) ==
    IF userId # NULL /\ isPublicRoute(pathname)
    THEN Redirect(HOME)
    ELSE IF userId = NULL
            /\ ~isPublicApiRoute(pathname) /\ ~isPublicRoute(pathname)
    THEN Redirect(SIGNIN)
    ELSE PassThrough

middleware_DenyEveryApi(userId, pathname) ==
    IF userId # NULL /\ isPublicRoute(pathname) /\ pathname # HOME
    THEN Redirect(HOME)
    ELSE IF userId = NULL
            /\ ~isPublicApiRoute(pathname) /\ ~isPublicRoute(pathname)
    THEN Redirect(SIGNIN)
    ELSE IF userId = NULL /\ startsWith(pathname, API_PREFIX)
    THEN Unauthorized
    ELSE PassThrough

\* The decision of the clerkMiddleware callback for a caller (userId is NULL
\* when nobody is signed in) and a request path.
middleware(userId, pathname) ==
    LET isHomePage == pathname = HOME
        isApiRequest == startsWith(pathname, API_PREFIX)
    IN  IF userId # NULL /\ isPublicRoute(pathname) /\ ~isHomePage
        THEN Redirect(HOME)
        ELSE IF userId = NULL
                /\ ~isPublicApiRoute(pathname) /\ ~isPublicRoute(pathname)
        THEN Redirect(SIGNIN)
        ELSE IF userId = NULL /\ isApiRequest /\ ~isPublicApiRoute(pathname)
        THEN Unauthorized
        ELSE PassThrough

(***************************************************************************)
(* Request paths: "/" followed by up to MaxDepth segments joined by "/".   *)
(***************************************************************************)
Segments == {
    <<"s","i","g","n","i","n">>,
    <<"s","i","g","n","u","p">>,
    <<"h","o","m","e">>,
    <<"a","p","i">>,
    <<"a","p","i","a","r","y">>,
    <<"v","i","d","e","o","s">>,
    <<"v","i","d","e","o","-","u","p","l","o","a","d">> }

RECURSIVE PathsOfDepth(_)
PathsOfDepth(d) ==
    IF d = 0 THEN {<<>>}
    ELSE {p \o <<"/">> \o s : p \in PathsOfDepth(d - 1), s \in Segments}

Paths == {ROOT} \cup UNION {PathsOfDepth(d) : d \in 1..MaxDepth}

Users == {NULL, [t |-> "user", id |-> 1]}

NoNav == [userId |-> NULL, chain |-> <<>>, resp |-> PassThrough]

\* The browser requests a path; the gate answers.
Visit(userId, pathname) ==
    /\ nav' = [userId |-> userId, chain |-> <<pathname>>,
               resp |-> middleware(userId, pathname)]
    /\ UNCHANGED <<videos, reqs, prisma, state, page, host>>

\* The browser follows a redirect the gate issued, with the same session.
FollowRedirect ==
    /\ nav.chain # <<>>
    /\ nav.resp.kind = "redirect"
    /\ Len(nav.chain) <= MaxHops
    /\ nav' = [nav EXCEPT !.chain = Append(@, nav.resp.location),
                          !.resp = middleware(nav.userId, nav.resp.location)]
    /\ UNCHANGED <<videos, reqs, prisma, state, page, host>>

(***************************************************************************)
(* The persistent store behind prisma.video: a table whose publicId column *)
(* is unique and whose insert is one atomic operation.  The store may also *)
(* fail for reasons of its own.                                            *)
(***************************************************************************)
UniqueViolation ==
    [name |-> "Error", source |-> "db",
     message |-> <<"U","n","i","q","u","e"," ","c","o","n","s","t","r","a","i","n","t"," ","f","a","i","l","e","d"," ","o","n"," ","t","h","e"," ","f","i","e","l","d","s",":"," ","(","p","u","b","l","i","c","I","d",")">>]

DbFaults == {
    [name |-> "Error", source |-> "db",
     message |-> <<"C","a","n","'","t"," ","r","e","a","c","h"," ","d","a","t","a","b","a","s","e"," ","s","e","r","v","e","r">>],
    [name |-> "Error", source |-> "db",
     message |-> <<"F","o","r","e","i","g","n"," ","k","e","y"," ","c","o","n","s","t","r","a","i","n","t"," ","v","i","o","l","a","t","e","d">>],
    [name |-> "Error", source |-> "db", message |-> <<>>] }

NewRow(table, data) ==
    [id |-> Len(table) + 1,
     title |-> data.title,
     description |-> data.description,
     publicId |-> data.publicId,
     originalSize |-> data.originalSize,
     compressedSize |-> data.compressedSize,
     duration |-> data.duration,
     createdAt |-> Len(table) + 1]

\* A store that does not enforce the uniqueness of publicId.
prisma_video_create_NoUnique(table, data) ==
    {[ok |-> FALSE, error |-> e] : e \in DbFaults}
    \cup (IF Len(table) < MaxVideos
          THEN {[ok |-> TRUE, row |-> NewRow(table, data)]}
          ELSE {})

\* The outcomes of prisma.video.create({ data }) on a table.
prisma_video_create(table, data) ==
    {[ok |-> FALSE, error |-> e] : e \in DbFaults}
    \cup (IF \E i \in 1..Len(table) : table[i].publicId = data.publicId
          THEN {[ok |-> FALSE, error |-> UniqueViolation]}
          ELSE IF Len(table) < MaxVideos
          THEN {[ok |-> TRUE, row |-> NewRow(table, data)]}
          ELSE {})

\* prisma.video.findMany({ orderBy: { createdAt: "desc" } })
prisma_video_findMany(table) ==
    [i \in 1..Len(table) |-> table[Len(table) + 1 - i]]

(***************************************************************************)
(* Requests of API clients.  A request passes the gate, then its handler;  *)
(* a handler that awaits the store gives way to the other requests.        *)
(***************************************************************************)
ApiClients == {"c1", "c2"}
Clients == ApiClients \cup {"page"}

Idle == [stage |-> "idle"]

Payload(title, description, publicId, videoUrl, duration) ==
    [t |-> "object", title |-> title, description |-> description,
     publicId |-> publicId, videoUrl |-> videoUrl,
     originalSize |-> JStr(<<"9">>), compressedSize |-> JStr(<<"7">>),
     duration |-> duration]

T1 == JStr(<<"t">>)
P1 == JStr(<<"p","1">>)
P2 == JStr(<<"p","2">>)
U1 == JStr(<<"h","t","t","p","s",":","/","/","h","/","v">>)

\* The request bodies clients send.
Bodies == {
    InvalidJson,
    NULL,
    JNum(5),
    Payload(T1, JStr(<<"d">>), P1, U1, JNum(5)),
    Payload(JStr(<<" ","t"," ">>), UNDEFINED, JStr(<<" ","p","1"," ">>), U1, UNDEFINED),
    Payload(T1, NULL, P2, U1, JStr(<<"a","b","c">>)),
    Payload(T1, UNDEFINED, P2, U1, JBool(TRUE)),
    Payload(T1, UNDEFINED, P1, U1, JStr(<<" ","7"," ">>)),
    Payload(T1, UNDEFINED, P2, U1, JNum(0 - 3)),
    Payload(UNDEFINED, UNDEFINED, P1, U1, JNum(5)),
    Payload(JStr(<<" ">>), UNDEFINED, NULL, JStr(<<>>), JNum(5)),
    Payload(T1, UNDEFINED, P1, JStr(<<" "," ">>), JNum(5)),
    Payload(UNDEFINED, UNDEFINED, JNum(5), U1, JNum(5)),
    Payload(JNum(1), UNDEFINED, P1, U1, JNum(5)),
    Payload(T1, JNum(1), P1, U1, JNum(5)),
    Payload(T1, UNDEFINED, P2, JStr(<<" ","u"," ">>), JNum(5)) }

\* The valid payloads two racing clients send: two of them carry the same
\* reference id once trimmed.
RaceBodies == {
    Payload(T1, JStr(<<"d">>), P1, U1, JNum(5)),
    Payload(JStr(<<" ","t"," ">>), UNDEFINED, JStr(<<" ","p","1"," ">>), U1, UNDEFINED),
    Payload(T1, NULL, P2, U1, JStr(<<"a","b","c">>)) }

\* POST /api/video-upload arrives: the gate decides; a request let through
\* runs the handler up to its await of prisma.video.create.
PostSlot(userId, body) ==
    LET gate == middleware(userId, API_VIDEO_UPLOAD)
        req == [method |-> "POST", path |-> API_VIDEO_UPLOAD,
                userId |-> userId, body |-> body]
        r == POST_validate(body)
    IN  IF gate.kind # "next"
        THEN [stage |-> "done", req |-> req, handled |-> FALSE,
              thrown |-> NULL, resp |-> gate]
        ELSE IF r.kind = "respond"
        THEN [stage |-> "done", req |-> req, handled |-> TRUE,
              thrown |-> NULL, resp |-> r.resp]
        ELSE [stage |-> "create", req |-> req, data |-> r.data,
              videoUrl |-> r.videoUrl]

\* A client sends POST /api/video-upload.
Request_POST(c, userId, body) ==
    /\ reqs[c].stage = "idle"
    /\ reqs' = [reqs EXCEPT ![c] = PostSlot(userId, body)]
    /\ UNCHANGED <<nav, videos, prisma, state, page, host>>

\* A POST that replaces the stored records by the new one.
POST_create_Overwrites(c) ==
    /\ reqs[c].stage = "create"
    /\ \E out \in prisma_video_create(videos, reqs[c].data) :
        /\ videos' = IF out.ok THEN <<out.row>> ELSE videos
        /\ reqs' = [reqs EXCEPT ![c] =
                [stage |-> "done", req |-> reqs[c].req, handled |-> TRUE,
                 thrown |-> IF out.ok THEN NULL ELSE out.error,
                 resp |-> IF out.ok
                          THEN POST_success(out.row, reqs[c].videoUrl)
                          ELSE POST_catch(out.error)]]
    /\ prisma' = [prisma EXCEPT !.connected = TRUE]
    /\ UNCHANGED <<nav, state, page, host>>

\* prisma.video.create returns or throws; POST answers 201 or runs its catch.
POST_create(c) ==
    /\ reqs[c].stage = "create"
    /\ \E out \in prisma_video_create(videos, reqs[c].data) :
        /\ videos' = IF out.ok THEN Append(videos, out.row) ELSE videos
        /\ reqs' = [reqs EXCEPT ![c] =
                [stage |-> "done", req |-> reqs[c].req, handled |-> TRUE,
                 thrown |-> IF out.ok THEN NULL ELSE out.error,
                 resp |-> IF out.ok
                          THEN POST_success(out.row, reqs[c].videoUrl)
                          ELSE POST_catch(out.error)]]
    /\ prisma' = [prisma EXCEPT !.connected = TRUE]
    /\ UNCHANGED <<nav, state, page, host>>

\* A client sends GET /api/videos: the gate decides; the handler awaits
\* prisma.video.findMany.
Request_GET(c, userId) ==
    /\ reqs[c].stage = "idle"
    /\ LET gate == middleware(userId, API_VIDEOS)
           req == [method |-> "GET", path |-> API_VIDEOS,
                   userId |-> userId, body |-> UNDEFINED]
       IN  reqs' = [reqs EXCEPT ![c] =
                IF gate.kind # "next"
                THEN [stage |-> "done", req |-> req, handled |-> FALSE,
                      thrown |-> NULL, resp |-> gate]
                ELSE [stage |-> "find", req |-> req]]
    /\ UNCHANGED <<nav, videos, prisma, state, page, host>>

\* findMany returns or throws; GET answers, and its finally block
\* disconnects the shared client.
GET_findMany(c) ==
    /\ reqs[c].stage = "find"
    /\ \E fault \in DbFaults \cup {NULL} :
        reqs' = [reqs EXCEPT ![c] =
            [stage |-> "done", req |-> reqs[c].req, handled |-> TRUE,
             thrown |-> fault,
             resp |-> IF fault = NULL
                      THEN [kind |-> "json", status |-> 200,
                            videos |-> prisma_video_findMany(videos)]
                      ELSE [kind |-> "json", status |-> 500,
                            error |-> <<"I","n","t","e","r","n","a","l"," ","S","e","r","v","e","r"," ","E","r","r","o","r">>]]]
    /\ prisma' = [prisma EXCEPT !.connected = FALSE]
    /\ UNCHANGED <<nav, videos, state, page, host>>

\* The client takes the response.
Receive(c) ==
    /\ reqs[c].stage = "done"
    /\ reqs' = [reqs EXCEPT ![c] = Idle]
    /\ UNCHANGED <<nav, videos, prisma, state, page, host>>


(***************************************************************************)
(* The upload page's helpers: src/lib/upload-utils.ts, the video API       *)
(* service and src/lib/cloudinary-service.ts.                              *)
(***************************************************************************)
MAX_VIDEO_SIZE == 70 * 1024 * 1024

UPLOAD_STATES ==
    [IDLE |-> "",
     UPLOADING_TO_CLOUDINARY |-> "Uploading to Cloudinary...",
     SAVING_TO_DATABASE |-> "Saving to database...",
     COMPLETE |-> "Upload complete!",
     ERROR |-> "Upload failed. Please try again."]

\* Number.prototype.toString of a natural number
RECURSIVE toString(_)
toString(n) ==
    IF n < 10 THEN <<Digits[n + 1]>>
    ELSE toString(n \div 10) \o <<Digits[(n % 10) + 1]>>

Ok == [ok |-> TRUE]
Throw(message) == [ok |-> FALSE, message |-> message]

\* Mutants of the validation: the size check lost; the type check lost.
validateVideoFile_NoSizeCheck(file) ==
    IF file = NULL THEN Throw(<<"P","l","e","a","s","e"," ","s","e","l","e","c","t"," ","a"," ","v","i","d","e","o"," ","f","i","l","e">>)
    ELSE IF ~startsWith(file.type, <<"v","i","d","e","o","/">>)
    THEN Throw(<<"P","l","e","a","s","e"," ","s","e","l","e","c","t"," ","a"," ","v","a","l","i","d"," ","v","i","d","e","o"," ","f","i","l","e">>)
    ELSE Ok

validateVideoFile_NoTypeCheck(file) ==
    IF file = NULL THEN Throw(<<"P","l","e","a","s","e"," ","s","e","l","e","c","t"," ","a"," ","v","i","d","e","o"," ","f","i","l","e">>)
    ELSE IF file.size > MAX_VIDEO_SIZE
    THEN Throw(<<"F","i","l","e"," ","s","i","z","e"," ","s","h","o","u","l","d"," ","b","e"," ","l","e","s","s"," ","t","h","a","n"," ">>
               \o toString((MAX_VIDEO_SIZE \div 1024) \div 1024) \o <<"M","B">>)
    ELSE Ok

\* validateVideoFile: returns, or throws an Error with a message.
\* A size check that rejects the ceiling itself.
validateVideoFile_Exclusive(file) ==
    IF file = NULL THEN Throw(<<"P","l","e","a","s","e"," ","s","e","l","e","c","t"," ","a"," ","v","i","d","e","o"," ","f","i","l","e">>)
    ELSE IF file.size >= MAX_VIDEO_SIZE
    THEN Throw(<<"F","i","l","e"," ","s","i","z","e"," ","s","h","o","u","l","d"," ","b","e"," ","l","e","s","s"," ","t","h","a","n"," ">>
               \o toString((MAX_VIDEO_SIZE \div 1024) \div 1024) \o <<"M","B">>)
    ELSE IF ~startsWith(file.type, <<"v","i","d","e","o","/">>)
    THEN Throw(<<"P","l","e","a","s","e"," ","s","e","l","e","c","t"," ","a"," ","v","a","l","i","d"," ","v","i","d","e","o"," ","f","i","l","e">>)
    ELSE Ok

validateVideoFile(file) ==
    IF file = NULL THEN Throw(<<"P","l","e","a","s","e"," ","s","e","l","e","c","t"," ","a"," ","v","i","d","e","o"," ","f","i","l","e">>)
    ELSE IF file.size > MAX_VIDEO_SIZE
    THEN Throw(<<"F","i","l","e"," ","s","i","z","e"," ","s","h","o","u","l","d"," ","b","e"," ","l","e","s","s"," ","t","h","a","n"," ">>
               \o toString((MAX_VIDEO_SIZE \div 1024) \div 1024) \o <<"M","B">>)
    ELSE IF ~startsWith(file.type, <<"v","i","d","e","o","/">>)
    THEN Throw(<<"P","l","e","a","s","e"," ","s","e","l","e","c","t"," ","a"," ","v","a","l","i","d"," ","v","i","d","e","o"," ","f","i","l","e">>)
    ELSE Ok

\* A JavaScript value is falsy.
falsy(v) ==
    \/ v.t \in {"undefined", "null"}
    \/ v.t = "string" /\ v.s = <<>>
    \/ v.t = "number" /\ v.n = 0
    \/ v.t = "boolean" /\ ~v.b

\* validateVideoMetadata: the first required field that is falsy is named.
validateVideoMetadata(metadata) ==
    IF falsy(metadata.title)
    THEN Throw(<<"M","i","s","s","i","n","g"," ","r","e","q","u","i","r","e","d"," ","f","i","e","l","d",":"," ","t","i","t","l","e">>)
    ELSE IF falsy(metadata.publicId)
    THEN Throw(<<"M","i","s","s","i","n","g"," ","r","e","q","u","i","r","e","d"," ","f","i","e","l","d",":"," ","p","u","b","l","i","c","I","d">>)
    ELSE IF falsy(metadata.videoUrl)
    THEN Throw(<<"M","i","s","s","i","n","g"," ","r","e","q","u","i","r","e","d"," ","f","i","e","l","d",":"," ","v","i","d","e","o","U","r","l">>)
    ELSE Ok

\* getCloudinaryConfig: reads the cloud name from the environment.
getCloudinaryConfig(env) ==
    IF falsy(env.NEXT_PUBLIC_CLOUDINARY_CLOUD_NAME)
    THEN Throw(<<"N","E","X","T","_","P","U","B","L","I","C","_","C","L","O","U","D","I","N","A","R","Y","_","C","L","O","U","D","_","N","A","M","E"," ","e","n","v","i","r","o","n","m","e","n","t"," ","v","a","r","i","a","b","l","e"," ","i","s"," ","n","o","t"," ","s","e","t">>)
    ELSE [ok |-> TRUE,
          config |-> [cloudName |-> env.NEXT_PUBLIC_CLOUDINARY_CLOUD_NAME,
                      uploadPreset |-> JStr(<<"c","l","o","u","d","n","a","r","y","-","s","a","a","s">>),
                      folder |-> JStr(<<"v","i","d","e","o">>)]]

\* uploadVideoToCloudinary up to its fetch: the configuration checks.
uploadConfigCheck(config) ==
    IF falsy(config.cloudName)
    THEN Throw(<<"C","l","o","u","d","i","n","a","r","y"," ","c","l","o","u","d"," ","n","a","m","e"," ","i","s"," ","r","e","q","u","i","r","e","d">>)
    ELSE IF falsy(config.uploadPreset)
    THEN Throw(<<"C","l","o","u","d","i","n","a","r","y"," ","u","p","l","o","a","d"," ","p","r","e","s","e","t"," ","i","s"," ","r","e","q","u","i","r","e","d">>)
    ELSE Ok

(***************************************************************************)
(* The files a user can pick, what a user can type, what the host answers. *)
(***************************************************************************)
File(size, type) == [t |-> "file", size |-> size, type |-> type]

Files == {
    File(1, <<"v","i","d","e","o","/","m","p","4">>),
    File(MAX_VIDEO_SIZE, <<"v","i","d","e","o","/","w","e","b","m">>),
    File(MAX_VIDEO_SIZE + 1, <<"v","i","d","e","o","/","m","p","4">>),
    File(2 * MAX_VIDEO_SIZE, <<"i","m","a","g","e","/","p","n","g">>),
    File(1, <<"i","m","a","g","e","/","p","n","g">>),
    File(1, <<"v","i","d","e","o">>),
    File(1, <<>>) }

Titles == {<<>>, <<" ">>, <<" ","t"," ">>}
Descriptions == {<<>>, <<"d">>}

\* Responses of the media host to an upload: success documents, error
\* documents, and a failure of the exchange itself (status 0).
HostAnswers == {
    [ok |-> TRUE,
     result |-> [public_id |-> P1, secure_url |-> U1, bytes |-> 7,
                 duration |-> JNum(5)]],
    [ok |-> TRUE,
     result |-> [public_id |-> P2, secure_url |-> U1, bytes |-> 7,
                 duration |-> UNDEFINED]],
    [ok |-> TRUE,
     result |-> [public_id |-> JStr(<<>>), secure_url |-> U1, bytes |-> 7,
                 duration |-> JNum(5)]],
    [ok |-> FALSE, status |-> 400,
     error |-> JStr(<<"U","p","l","o","a","d"," ","p","r","e","s","e","t"," ","n","o","t"," ","f","o","u","n","d">>)],
    [ok |-> FALSE, status |-> 500, error |-> UNDEFINED],
    [ok |-> FALSE, status |-> 0, error |-> UNDEFINED] }

InitialState ==
    [file |-> NULL, title |-> <<>>, description |-> <<>>,
     isUploading |-> FALSE, uploadProgress |-> UPLOAD_STATES.IDLE]


(***************************************************************************)
(* The upload page: VideoUploadPage in video-upload/page.tsx.  state is    *)
(* the React state; page holds the position of the running handleSubmit    *)
(* (pc, run), the file input element, the pending timers, and the alert    *)
(* the last step of the page raised (NULL when it raised none).            *)
(***************************************************************************)
Envs == {
    [NEXT_PUBLIC_CLOUDINARY_CLOUD_NAME |-> JStr(<<"d","e","m","o">>)],
    [NEXT_PUBLIC_CLOUDINARY_CLOUD_NAME |-> UNDEFINED] }

InitialPage(env) ==
    [pc |-> "ready", run |-> NULL, overlap |-> FALSE, mounted |-> TRUE,
     input |-> NULL, resetTimers |-> 0, redirectTimer |-> FALSE,
     alert |-> NULL, env |-> env]

InitialHost == [assets |-> {}, uploads |-> <<>>, pending |-> NULL]

\* setState on a component that may have been unmounted by router.push
setState(next) == IF page.mounted THEN next ELSE state

\* The submit control: disabled={isUploading || !file || !title.trim()}
submitDisabled ==
    state.isUploading \/ state.file = NULL \/ trim(state.title) = <<>>

\* A submit control that forgets the run in flight.
submitEnabled_IgnoresUploading ==
    /\ ~(state.file = NULL \/ trim(state.title) = <<>>)
    /\ page.input # NULL
    /\ state.title # <<>>

\* The form lets a submit event through: the control is enabled and the
\* required inputs (title, file) are filled.
submitEnabled ==
    /\ ~submitDisabled
    /\ page.input # NULL
    /\ state.title # <<>>

\* A selection handler that forgets the stored file when it rejects one.
handleFileSelect_ClearsOnReject(selectedFile) ==
    /\ page.mounted
    /\ ~state.isUploading
    /\ LET v == validateVideoFile(selectedFile)
       IN  IF selectedFile # NULL /\ ~v.ok
           THEN /\ state' = [state EXCEPT !.file = NULL]
                /\ page' = [page EXCEPT !.alert = JStr(v.message), !.input = NULL]
           ELSE /\ state' = [state EXCEPT !.file = selectedFile]
                /\ page' = [page EXCEPT !.alert = NULL,
                                        !.input = selectedFile]
    /\ UNCHANGED <<nav, videos, reqs, prisma, host>>

\* handleFileSelect: a change event of the file input.
handleFileSelect(selectedFile) ==
    /\ page.mounted
    /\ ~state.isUploading
    /\ LET v == validateVideoFile(selectedFile)
       IN  IF selectedFile # NULL /\ ~v.ok
           THEN /\ state' = state
                /\ page' = [page EXCEPT !.alert = JStr(v.message), !.input = NULL]
           ELSE /\ state' = [state EXCEPT !.file = selectedFile]
                /\ page' = [page EXCEPT !.alert = NULL,
                                        !.input = selectedFile]
    /\ UNCHANGED <<nav, videos, reqs, prisma, host>>

\* handleInputChange(field): a change event of the title or description.
handleInputChange(fieldName, value) ==
    /\ page.mounted
    /\ ~state.isUploading
    /\ state' = [state EXCEPT ![fieldName] = value]
    /\ page' = [page EXCEPT !.alert = NULL]
    /\ UNCHANGED <<nav, videos, reqs, prisma, host>>

\* The catch and finally blocks of handleSubmit: the state and the page
\* after an error with this message.
catchState == setState([state EXCEPT !.uploadProgress = UPLOAD_STATES.ERROR,
                                     !.isUploading = FALSE])

\* A catch block that shows nothing to the user.
catchPage_Silent(message) ==
    [page EXCEPT !.pc = "ready", !.run = NULL, !.alert = NULL,
                 !.resetTimers = @ + 1]

catchPage(message) ==
    [page EXCEPT
        !.pc = "ready",
        !.run = NULL,
        !.alert = JStr(<<"U","p","l","o","a","d"," ","f","a","i","l","e","d",":"," ">>
                    \o (IF message # <<>> THEN message
                        ELSE <<"A","n"," ","u","n","e","x","p","e","c","t","e","d"," ","e","r","r","o","r"," ","o","c","c","u","r","r","e","d">>)),
        !.resetTimers = @ + 1]

\* handleSubmit up to its first await: validation, initialisation, the
\* configuration and the request to the media host.
handleSubmit ==
    /\ page.mounted
    /\ submitEnabled
    /\ page.resetTimers < MaxTimers
    /\ Len(host.uploads) < MaxUploads
    /\ LET v == validateVideoFile(state.file)
           c == getCloudinaryConfig(page.env)
           failure ==
                IF ~v.ok THEN v
                ELSE IF trim(state.title) = <<>>
                THEN Throw(<<"P","l","e","a","s","e"," ","e","n","t","e","r"," ","a"," ","v","i","d","e","o"," ","t","i","t","l","e">>)
                ELSE IF ~c.ok THEN c
                ELSE uploadConfigCheck(c.config)
       IN  IF ~failure.ok
           THEN /\ state' = catchState
                /\ page' = [catchPage(failure.message)
                                EXCEPT !.pc = page.pc, !.run = page.run,
                                       !.overlap = @ \/ page.pc # "ready"]
                /\ host' = host
           ELSE /\ state' = setState([state EXCEPT
                        !.isUploading = TRUE,
                        !.uploadProgress =
                            UPLOAD_STATES.UPLOADING_TO_CLOUDINARY])
                /\ page' = [page EXCEPT
                        !.pc = "host",
                        !.run = [file |-> state.file, title |-> state.title,
                                 description |-> state.description],
                        !.overlap = @ \/ page.pc # "ready",
                        !.alert = NULL]
                /\ host' = [host EXCEPT !.pending = state.file,
                                        !.uploads = Append(@, state.file)]
    /\ UNCHANGED <<nav, videos, reqs, prisma>>

\* Metadata that carries a fixed reference id instead of the host's.
videoMetadata_FixedId(run, result) ==
    [t |-> "object",
     title |-> JStr(trim(run.title)),
     description |-> JStr(trim(run.description)),
     publicId |-> P1,
     videoUrl |-> result.secure_url,
     originalSize |-> JStr(toString(run.file.size)),
     compressedSize |-> JStr(toString(result.bytes)),
     duration |-> IF falsy(result.duration) THEN JNum(0) ELSE result.duration]

\* The metadata handleSubmit builds from the run and the host's result.
videoMetadata(run, result) ==
    [t |-> "object",
     title |-> JStr(trim(run.title)),
     description |-> JStr(trim(run.description)),
     publicId |-> result.public_id,
     videoUrl |-> result.secure_url,
     originalSize |-> JStr(toString(run.file.size)),
     compressedSize |-> JStr(toString(result.bytes)),
     duration |-> IF falsy(result.duration) THEN JNum(0) ELSE result.duration]

\* A client that reports every host failure with one fixed text.
hostFailure_Generic(answer) ==
    <<"C","l","o","u","d","i","n","a","r","y"," ","u","p","l","o","a","d"," ","f","a","i","l","e","d">>

\* The message uploadVideoToCloudinary throws for the host's answer.
hostFailure(answer) ==
    IF answer.status = 0 THEN <<"F","a","i","l","e","d"," ","t","o"," ","f","e","t","c","h">>
    ELSE <<"C","l","o","u","d","i","n","a","r","y"," ","u","p","l","o","a","d"," ","f","a","i","l","e","d",":"," ">>
            \o (IF falsy(answer.error) THEN <<"U","n","k","n","o","w","n"," ","e","r","r","o","r">>
                ELSE answer.error.s)

\* The media host answers the upload; handleSubmit resumes: on success it
\* validates the metadata and sends it to the metadata endpoint.
HostRespond(answer, userId) ==
    /\ page.pc = "host"
    /\ host.pending # NULL
    /\ host' = [host EXCEPT
            !.pending = NULL,
            !.assets = IF answer.ok
                       THEN @ \cup {answer.result.public_id.s} ELSE @]
    /\ LET metadata == videoMetadata(page.run, answer.result)
           failure ==
                IF ~answer.ok THEN Throw(hostFailure(answer))
                ELSE validateVideoMetadata(metadata)
       IN  IF ~failure.ok
           THEN /\ state' = catchState
                /\ page' = catchPage(failure.message)
                /\ reqs' = reqs
           ELSE /\ state' = setState([state EXCEPT !.uploadProgress =
                                        UPLOAD_STATES.SAVING_TO_DATABASE])
                /\ page' = [page EXCEPT !.pc = "api", !.alert = NULL]
                /\ reqs' = [reqs EXCEPT !["page"] = PostSlot(userId, metadata)]
    /\ UNCHANGED <<nav, videos, prisma>>

\* The message saveVideoMetadata throws for the endpoint's answer, if any.
apiFailure(resp) ==
    IF resp.kind = "redirect"
    THEN Throw(<<"U","n","e","x","p","e","c","t","e","d"," ","t","o","k","e","n"," ","'","<","'">>)
    ELSE IF resp.status \in 200..299 THEN Ok
    ELSE Throw(<<"D","a","t","a","b","a","s","e"," ","s","a","v","e"," ","f","a","i","l","e","d",":"," ">>
                \o (IF resp.error # <<>> THEN resp.error
                    ELSE <<"U","n","k","n","o","w","n"," ","e","r","r","o","r">>))

\* A workflow that sends the metadata again when the endpoint refused it.
ApiRespond_Resubmits ==
    /\ page.pc = "api"
    /\ reqs["page"].stage = "done"
    /\ LET failure == apiFailure(reqs["page"].resp)
       IN  IF ~failure.ok
           THEN /\ reqs' = [reqs EXCEPT !["page"] =
                        PostSlot(reqs["page"].req.userId,
                                 reqs["page"].req.body)]
                /\ state' = state
                /\ page' = [page EXCEPT !.alert = NULL]
           ELSE /\ reqs' = [reqs EXCEPT !["page"] = Idle]
                /\ state' = setState([state EXCEPT
                        !.uploadProgress = UPLOAD_STATES.COMPLETE,
                        !.isUploading = FALSE])
                /\ page' = [page EXCEPT !.pc = "ready", !.run = NULL,
                                        !.redirectTimer = TRUE,
                                        !.alert = NULL]
    /\ UNCHANGED <<nav, videos, prisma, host>>

\* The metadata endpoint has answered; handleSubmit resumes and ends.
ApiRespond ==
    /\ page.pc = "api"
    /\ reqs["page"].stage = "done"
    /\ reqs' = [reqs EXCEPT !["page"] = Idle]
    /\ LET failure == apiFailure(reqs["page"].resp)
       IN  IF ~failure.ok
           THEN /\ state' = catchState
                /\ page' = catchPage(failure.message)
           ELSE /\ state' = setState([state EXCEPT
                        !.uploadProgress = UPLOAD_STATES.COMPLETE,
                        !.isUploading = FALSE])
                /\ page' = [page EXCEPT !.pc = "ready", !.run = NULL,
                                        !.redirectTimer = TRUE,
                                        !.alert = NULL]
    /\ UNCHANGED <<nav, videos, prisma, host>>

\* The 3000 ms timer of the catch block fires.
ResetTimerFire ==
    /\ page.resetTimers > 0
    /\ state' = setState([state EXCEPT !.uploadProgress = UPLOAD_STATES.IDLE])
    /\ page' = [page EXCEPT !.resetTimers = @ - 1, !.alert = NULL]
    /\ UNCHANGED <<nav, videos, reqs, prisma, host>>

\* The 1000 ms timer of the success path fires: router.push('/') leaves the
\* page.
RedirectTimerFire ==
    /\ page.redirectTimer
    /\ page' = [page EXCEPT !.redirectTimer = FALSE, !.mounted = FALSE,
                            !.alert = NULL]
    /\ UNCHANGED <<nav, videos, reqs, prisma, state, host>>


Init ==
    /\ nav = NoNav
    /\ videos = <<>>
    /\ reqs = [c \in Clients |-> Idle]
    /\ prisma = [connected |-> FALSE]
    /\ state = InitialState
    /\ page \in {InitialPage(env) : env \in Envs}
    /\ host = InitialHost

NextGate ==
    \/ \E u \in Users, p \in Paths : Visit(u, p)
    \/ FollowRedirect

SpecGate == Init /\ [][NextGate]_vars

\* The endpoints serving the requests of a set of clients.
NextApi(clients, bodies) ==
    \/ \E c \in clients, u \in Users, b \in bodies : Request_POST(c, u, b)
    \/ \E c \in clients : POST_create(c)
    \/ \E c \in clients, u \in Users : Request_GET(c, u)
    \/ \E c \in clients : GET_findMany(c)
    \/ \E c \in clients : Receive(c)

\* One client sending any body, one request after the other.
SpecApi == Init /\ [][NextApi({"c1"}, Bodies)]_vars

\* Two clients whose requests overlap, sending valid payloads.
SpecRace == Init /\ [][NextApi(ApiClients, RaceBodies)]_vars

\* The upload page with the media host and the metadata endpoint behind it.
NextPage ==
    \/ \E f \in Files \cup {NULL} : handleFileSelect(f)
    \/ \E v \in Titles : handleInputChange("title", v)
    \/ \E v \in Descriptions : handleInputChange("description", v)
    \/ handleSubmit
    \/ \E a \in HostAnswers, u \in Users : HostRespond(a, u)
    \/ POST_create("page")
    \/ ApiRespond
    \/ ResetTimerFire
    \/ RedirectTimerFire

SpecPage == Init /\ [][NextPage]_vars

\* The upload page with its timers: a timer that has been set fires.
SpecPageLive ==
    /\ Init
    /\ [][NextPage]_vars
    /\ WF_vars(ResetTimerFire)
    /\ WF_vars(RedirectTimerFire)

\* The request the gate answered last.
Path == nav.chain[Len(nav.chain)]
Answered == nav.chain # <<>>
SignedIn == nav.userId # NULL

\* The allow-lists as the specification states them.
PublicPagePaths == {SIGNIN, SIGNUP, ROOT, HOME}
PublicApiPaths == {API_VIDEOS}
UnderApi(p) == p = API_PREFIX \/ startsWith(p, API_PREFIX \o <<"/">>)

\* C1: every unauthenticated request whose path starts with /api and is not
\* in the public API allow-list is answered with a JSON error of status 401,
\* never with a redirect.
C1_ApiDeniedWith401 ==
    (Answered /\ ~SignedIn /\ startsWith(Path, API_PREFIX)
        /\ Path \notin PublicApiPaths)
    => (nav.resp.kind = "json" /\ nav.resp.status = 401)

\* C2: every unauthenticated request for a page path (not under /api) that is
\* in neither allow-list is redirected to /signin.
C2_PageRedirectedToSignin ==
    (Answered /\ ~SignedIn /\ ~UnderApi(Path)
        /\ Path \notin PublicPagePaths /\ Path \notin PublicApiPaths)
    => nav.resp = [kind |-> "redirect", location |-> SIGNIN]

C2_Witness ==
    /\ Answered /\ ~SignedIn
    /\ Path = <<"/","v","i","d","e","o","-","u","p","l","o","a","d">>
    /\ nav.resp = [kind |-> "redirect", location |-> SIGNIN]

\* C3: an authenticated request is redirected to /home on /signin, /signup
\* and /, and is not redirected on /home itself.
C3_SignedInRedirectedHome ==
    (Answered /\ SignedIn)
    => /\ Path \in {SIGNIN, SIGNUP, ROOT}
            => nav.resp = [kind |-> "redirect", location |-> HOME]
       /\ Path = HOME => nav.resp.kind # "redirect"

C3_Witness ==
    /\ Answered /\ SignedIn
    /\ Len(nav.chain) = 2 /\ nav.chain[1] = SIGNIN /\ Path = HOME
    /\ nav.resp.kind = "next"

\* C4: when neither rule applies (signed in and the path is /home or no
\* public page path; or not signed in and the path is in an allow-list) the
\* gate lets the request proceed: no redirect, no error body.
C4_OtherwiseProceeds ==
    (Answered
        /\ \/ SignedIn /\ (Path = HOME \/ Path \notin PublicPagePaths)
           \/ ~SignedIn /\ Path \in PublicPagePaths \cup PublicApiPaths)
    => nav.resp = [kind |-> "next"]

C4_Witness ==
    /\ Answered /\ ~SignedIn /\ Path = API_VIDEOS
    /\ nav.resp = [kind |-> "next"]

(***************************************************************************)
(* The metadata endpoint's claims.                                         *)
(***************************************************************************)
\* A required field as the specification reads it: absent, null, empty or
\* whitespace-only.
FieldMissing(v) ==
    \/ v.t \in {"undefined", "null"}
    \/ v.t = "string" /\ \A i \in 1..Len(v.s) : v.s[i] = " "

FieldPresent(v) == v.t = "string" /\ \E i \in 1..Len(v.s) : v.s[i] # " "

Prop(body, name) == IF body.t = "object" THEN body[name] ELSE UNDEFINED

\* The stored form of a reference id: without the surrounding blanks.
RECURSIVE Strip(_)
Strip(s) ==
    IF s # <<>> /\ Head(s) = " " THEN Strip(Tail(s))
    ELSE IF s # <<>> /\ s[Len(s)] = " " THEN Strip(SubSeq(s, 1, Len(s) - 1))
    ELSE s

IsJson(body) == body.t # "invalid"

MissingRequired(body) ==
    /\ IsJson(body)
    /\ \/ FieldMissing(Prop(body, "title"))
       \/ FieldMissing(Prop(body, "publicId"))
       \/ FieldMissing(Prop(body, "videoUrl"))

ValidPayload(body) ==
    /\ body.t = "object"
    /\ FieldPresent(body.title)
    /\ FieldPresent(body.publicId)
    /\ FieldPresent(body.videoUrl)

Stored(table, publicId) == \E i \in 1..Len(table) : table[i].publicId = publicId

\* The handler of client c answers in this step.
Answers(c) ==
    /\ reqs[c].stage # "done"
    /\ reqs'[c].stage = "done"
    /\ reqs'[c].handled

AnswersPost(c) == Answers(c) /\ reqs'[c].req.method = "POST"

\* C5: a POST whose JSON payload has title, publicId or videoUrl absent,
\* null, empty or whitespace-only is answered with status 400, and the
\* persisted records are unchanged.
C5_MissingFieldIs400 ==
    [][\A c \in Clients :
        (AnswersPost(c) /\ MissingRequired(reqs'[c].req.body))
        => (reqs'[c].resp.status = 400 /\ videos' = videos)]_vars

\* The input duration is absent, or is no number and no numeric text.
DurationAbsentOrNonNumeric(v) ==
    \/ v.t \in {"undefined", "null", "boolean"}
    \/ v.t = "string" /\ \E i \in 1..Len(v.s) : ~isDigit(v.s[i])

\* C6: for a valid payload (with a textual or absent description) whose
\* publicId is not yet stored, one invocation (on a store that raises no
\* error) creates exactly one Video record, and the record's duration is 0
\* when the input duration is absent or non-numeric.
C6_ValidCreatesOneRecord ==
    [][\A c \in Clients :
        (/\ AnswersPost(c)
         /\ ValidPayload(reqs'[c].req.body)
         /\ reqs'[c].req.body.description.t \in {"undefined", "null", "string"}
         /\ ~Stored(videos, Strip(reqs'[c].req.body.publicId.s))
         /\ reqs'[c].thrown = NULL)
        => /\ Len(videos') = Len(videos) + 1
           /\ SubSeq(videos', 1, Len(videos)) = videos
           /\ videos'[Len(videos')].publicId
                = Strip(reqs'[c].req.body.publicId.s)
           /\ DurationAbsentOrNonNumeric(reqs'[c].req.body.duration)
                => videos'[Len(videos')].duration = 0]_vars

\* The store raised nothing but, possibly, the uniqueness violation.
NoOtherFault(c) ==
    \/ reqs'[c].thrown = NULL
    \/ reqs'[c].thrown = UniqueViolation

\* C7: of the valid payloads submitted with one reference id, in sequence or
\* concurrently, the one reaching the store first is answered 201 and
\* creates the record, every later one is answered 409, no record is
\* overwritten, and no two records share that publicId.
C7_DuplicateIsConflict ==
    /\ [](\A i, j \in 1..Len(videos) :
            videos[i].publicId = videos[j].publicId => i = j)
    /\ [][\A c \in Clients :
            (/\ AnswersPost(c)
             /\ reqs[c].stage = "create"
             /\ ValidPayload(reqs'[c].req.body)
             /\ NoOtherFault(c))
            => LET id == Strip(reqs'[c].req.body.publicId.s)
               IN  /\ SubSeq(videos', 1, Len(videos)) = videos
                   /\ Stored(videos, id)
                        => (reqs'[c].resp.status = 409 /\ videos' = videos)
                   /\ ~Stored(videos, id)
                        => (reqs'[c].resp.status = 201
                            /\ Len(videos') = Len(videos) + 1
                            /\ Stored(videos', id))]_vars

C7_Witness ==
    /\ reqs["c1"].stage = "done" /\ reqs["c2"].stage = "done"
    /\ reqs["c1"].handled /\ reqs["c2"].handled
    /\ reqs["c1"].req.method = "POST" /\ reqs["c2"].req.method = "POST"
    /\ reqs["c1"].req.body # reqs["c2"].req.body
    /\ Strip(reqs["c1"].req.body.publicId.s)
         = Strip(reqs["c2"].req.body.publicId.s)
    /\ reqs["c1"].resp.status = 409
    /\ reqs["c2"].resp.status = 201
    /\ Len(videos) = 1

\* A persistence failure of the metadata endpoint: the store threw.
PersistenceFailed(c) ==
    /\ reqs[c].stage = "done"
    /\ reqs[c].handled
    /\ reqs[c].req.method = "POST"
    /\ reqs[c].thrown # NULL

IsUniqueViolation(e) == includes(e.message, <<"U","n","i","q","u","e"," ","c","o","n","s","t","r","a","i","n","t">>)
IsForeignKeyViolation(e) == includes(e.message, <<"F","o","r","e","i","g","n"," ","k","e","y"," ","c","o","n","s","t","r","a","i","n","t">>)

Ceiling == 73400320

Oversized(f) == f # NULL /\ f.size > Ceiling

NotVideo(f) ==
    /\ f # NULL
    /\ ~(/\ Len(f.type) >= 6
         /\ f.type[1] = "v" /\ f.type[2] = "i" /\ f.type[3] = "d"
         /\ f.type[4] = "e" /\ f.type[5] = "o" /\ f.type[6] = "/")

\* The files of the requests the page has issued or is preparing: those sent
\* to the media host, and the one whose metadata goes to the endpoint.
FilesInRequests ==
    {host.uploads[i] : i \in 1..Len(host.uploads)}
    \cup {host.pending}
    \cup (IF page.run # NULL THEN {page.run.file} ELSE {})

\* The original size announced to the metadata endpoint, if a request is out.
AnnouncedSizes ==
    IF reqs["page"].stage # "idle"
    THEN {stringToNumber(reqs["page"].req.body.originalSize.s).n}
    ELSE {}

\* C9: a file larger than 70 MiB is rejected by validateVideoFile, so file
\* selection never stores it, and no request to the media host or to the
\* metadata endpoint is ever issued for it.
C9_OversizedRejected ==
    /\ \A f \in Files : Oversized(f) => ~validateVideoFile(f).ok
    /\ ~Oversized(state.file)
    /\ ~Oversized(page.input)
    /\ \A f \in FilesInRequests : ~Oversized(f)
    /\ \A n \in AnnouncedSizes : n <= Ceiling

C9_Witness ==
    /\ page.alert = JStr(<<"F","i","l","e"," ","s","i","z","e"," ","s","h","o","u","l","d"," ","b","e"," ","l","e","s","s"," ","t","h","a","n"," ","7","0","M","B">>)
    /\ state.file = NULL
    /\ page.input = NULL
    /\ host = InitialHost
    /\ reqs["page"].stage = "idle"

\* C10: a file whose declared media type does not start with "video/" is
\* rejected by validateVideoFile, so it is never stored as the selected
\* file, and handleSubmit issues no request to the media host or to the
\* metadata endpoint for it.
C10_NonVideoRejected ==
    /\ \A f \in Files : NotVideo(f) => ~validateVideoFile(f).ok
    /\ ~NotVideo(state.file)
    /\ ~NotVideo(page.input)
    /\ \A f \in FilesInRequests : ~NotVideo(f)
    /\ reqs["page"].stage # "idle" => ~NotVideo(page.run.file)

C10_Witness ==
    /\ page.alert = JStr(<<"P","l","e","a","s","e"," ","s","e","l","e","c","t"," ","a"," ","v","a","l","i","d"," ","v","i","d","e","o"," ","f","i","l","e">>)
    /\ state.file # NULL
    /\ page.input = NULL
    /\ Len(host.uploads) = 1
    /\ page.pc = "ready"


\* The transitions of uploadProgress the specification lists.
ListedTransitions ==
    {<<UPLOAD_STATES.IDLE, UPLOAD_STATES.UPLOADING_TO_CLOUDINARY>>,
     <<UPLOAD_STATES.UPLOADING_TO_CLOUDINARY, UPLOAD_STATES.SAVING_TO_DATABASE>>,
     <<UPLOAD_STATES.SAVING_TO_DATABASE, UPLOAD_STATES.COMPLETE>>,
     <<UPLOAD_STATES.UPLOADING_TO_CLOUDINARY, UPLOAD_STATES.ERROR>>,
     <<UPLOAD_STATES.SAVING_TO_DATABASE, UPLOAD_STATES.ERROR>>,
     <<UPLOAD_STATES.ERROR, UPLOAD_STATES.IDLE>>}

\* C11: the upload progress the client observes changes only along idle ->
\* uploadingToHost -> savingMetadata -> complete, to error from
\* uploadingToHost or savingMetadata, and from error back to idle.
C11_OnlyListedTransitions ==
    [][\/ state'.uploadProgress = state.uploadProgress
       \/ <<state.uploadProgress, state'.uploadProgress>> \in ListedTransitions]_vars


\* A handleSubmit run is between its start and its end.
InFlight == page.pc # "ready"

\* C12: at most one upload workflow is in flight per session: while the
\* progress is uploadingToHost or savingMetadata, and while a run is in
\* flight on the mounted page, the submit control and the inputs are
\* disabled (isUploading), and no request to the media host is issued
\* before the previous run has finished.
C12_OneWorkflowInFlight ==
    /\ [](page.mounted
            => /\ state.uploadProgress \in
                    {UPLOAD_STATES.UPLOADING_TO_CLOUDINARY,
                     UPLOAD_STATES.SAVING_TO_DATABASE}
                  => state.isUploading
               /\ InFlight => state.isUploading)
    /\ [](~page.overlap)
    /\ [][Len(host.uploads') > Len(host.uploads)
            => /\ ~InFlight
               /\ host.pending = NULL
               /\ reqs["page"].stage = "idle"]_vars

C12_Witness ==
    /\ Len(host.uploads) = 2
    /\ page.pc = "api"
    /\ page.mounted
    /\ state.isUploading
    /\ state.uploadProgress = UPLOAD_STATES.SAVING_TO_DATABASE


\* C13: when the media host answers the upload with a non-success response,
\* the run ends without a second upload request and without a request to
\* the metadata endpoint, no record is created, and the alert raised
\* contains the error message the host reported.
C13_HostFailureSurfaced ==
    [][\A a \in HostAnswers, u \in Users :
        (~a.ok /\ HostRespond(a, u))
        => /\ host'.uploads = host.uploads
           /\ host'.pending = NULL
           /\ reqs["page"].stage = "idle"
           /\ reqs' = reqs
           /\ videos' = videos
           /\ page'.pc = "ready"
           /\ page'.alert.t = "string"
           /\ a.error.t = "string"
                => includes(page'.alert.s, a.error.s)]_vars

C13_Witness ==
    /\ page.alert = JStr(<<"U","p","l","o","a","d"," ","f","a","i","l","e","d",":"," ","C","l","o","u","d","i","n","a","r","y"," ","u","p","l","o","a","d"," ","f","a","i","l","e","d",":"," ","U","p","l","o","a","d"," ","p","r","e","s","e","t"," ","n","o","t"," ","f","o","u","n","d">>)
    /\ Len(host.uploads) = 1
    /\ host.pending = NULL
    /\ host.assets = {}
    /\ page.pc = "ready"
    /\ reqs["page"].stage = "idle"
    /\ videos = <<>>


\* C14: in every run the request to the metadata endpoint is issued only in
\* the step in which the media host returned success, and carries the
\* public_id and secure_url of that response; every record belongs to an
\* asset the host confirmed, so a run whose upload failed or is still
\* pending creates none.
C14_MetadataAfterHostSuccess ==
    /\ [](reqs["page"].stage # "idle"
            => /\ host.pending = NULL
               /\ reqs["page"].req.body.publicId.s \in host.assets)
    /\ [](\A i \in 1..Len(videos) : videos[i].publicId \in host.assets)
    /\ [][(reqs["page"].stage = "idle" /\ reqs'["page"].stage # "idle")
            => \E a \in HostAnswers, u \in Users :
                /\ a.ok
                /\ HostRespond(a, u)
                /\ reqs'["page"].req.body.publicId = a.result.public_id
                /\ reqs'["page"].req.body.videoUrl = a.result.secure_url]_vars
    /\ [][videos' # videos
            => /\ reqs["page"].stage = "create"
               /\ videos' = Append(videos, videos'[Len(videos')])
               /\ videos'[Len(videos')].publicId
                    = reqs["page"].req.body.publicId.s]_vars

C14_Witness ==
    /\ Len(videos) = 1
    /\ videos[1].publicId \in host.assets
    /\ Len(host.uploads) = 1
    /\ reqs["page"].stage = "done"
    /\ reqs["page"].resp.status = 201
    /\ page.pc = "api"


\* The failure of a run is on display.
ErrorShown == state.uploadProgress = UPLOAD_STATES.ERROR

\* The idle, retryable state.
IdleRetryable ==
    ~state.isUploading /\ state.uploadProgress = UPLOAD_STATES.IDLE

\* C15: after any failure of a run the client, without user action,
\* eventually returns to the idle state with isUploading false (unless the
\* user has started a new run in the meantime).
C15_FailureReturnsToIdle ==
    ErrorShown ~> (IdleRetryable \/ InFlight)


(***************************************************************************)
(* The metadata endpoint's claims, continued.                              *)
(***************************************************************************)
\* C16: a POST that reaches the metadata endpoint with a body that cannot be
\* parsed as JSON is answered with status 400 and the error "Invalid JSON
\* payload", and the persisted records are unchanged.
C16_InvalidJsonIs400 ==
    [][\A c \in Clients :
        (AnswersPost(c) /\ ~IsJson(reqs'[c].req.body))
        => /\ reqs'[c].resp.status = 400
           /\ reqs'[c].resp.error = <<"I","n","v","a","l","i","d"," ","J","S","O","N"," ","p","a","y","l","o","a","d">>
           /\ videos' = videos]_vars

C16_Witness ==
    /\ reqs["c1"].stage = "done"
    /\ reqs["c1"].handled
    /\ reqs["c1"].req.method = "POST"
    /\ ~IsJson(reqs["c1"].req.body)
    /\ reqs["c1"].resp.status = 400
    /\ Len(videos) = 1


\* The response reports a failed validation.
ValidationFailed(resp) ==
    /\ resp.kind = "json"
    /\ resp.status = 400
    /\ startsWith(resp.error, <<"M","i","s","s","i","n","g"," ","r","e","q","u","i","r","e","d"," ","f","i","e","l","d","s",":"," ">>)

\* The required fields: the property and its name as text.
RequiredFields ==
    {[key |-> "title", text |-> <<"t","i","t","l","e">>],
     [key |-> "publicId", text |-> <<"p","u","b","l","i","c","I","d">>],
     [key |-> "videoUrl", text |-> <<"v","i","d","e","o","U","r","l">>]}

\* C17: when validation fails at the metadata endpoint, the error message
\* names every required field that is empty after trimming and names no
\* field that is present.
C17_NamesExactlyMissing ==
    [][\A c \in Clients :
        (AnswersPost(c) /\ ValidationFailed(reqs'[c].resp))
        => /\ videos' = videos
           /\ \A f \in RequiredFields :
                FieldMissing(Prop(reqs'[c].req.body, f.key))
                <=> includes(reqs'[c].resp.error, f.text)]_vars

C17_Witness ==
    /\ reqs["c1"].stage = "done"
    /\ reqs["c1"].handled
    /\ reqs["c1"].resp.status = 400
    /\ reqs["c1"].resp.error = <<"M","i","s","s","i","n","g"," ","r","e","q","u","i","r","e","d"," ","f","i","e","l","d","s",":"," ","t","i","t","l","e",","," ","p","u","b","l","i","c","I","d",","," ","v","i","d","e","o","U","r","l">>
    /\ reqs["c1"].req.body.t = "object"


\* C18: a POST that creates a record is answered with status 201 and a body
\* holding the new record's id, its stored title and publicId, its
\* createdAt, and the videoUrl exactly as the client supplied it; no other
\* POST is answered 201.
C18_SuccessResponse ==
    [][\A c \in Clients :
        AnswersPost(c)
        => /\ reqs'[c].resp.status = 201 <=> Len(videos') = Len(videos) + 1
           /\ Len(videos') = Len(videos) + 1
                => LET row == videos'[Len(videos')]
                       video == reqs'[c].resp.video
                   IN  /\ video.id = row.id
                       /\ video.title = row.title
                       /\ video.title = Strip(reqs'[c].req.body.title.s)
                       /\ video.publicId = row.publicId
                       /\ video.publicId = Strip(reqs'[c].req.body.publicId.s)
                       /\ video.createdAt = row.createdAt
                       /\ video.videoUrl = reqs'[c].req.body.videoUrl.s]_vars

C18_Witness ==
    /\ reqs["c1"].stage = "done"
    /\ reqs["c1"].handled
    /\ reqs["c1"].resp.status = 201
    /\ Head(reqs["c1"].resp.video.videoUrl) = " "
    /\ reqs["c1"].resp.video.id = 2
    /\ Len(videos) = 2


\* C19: every persisted Video record has a duration of at least 0.
C19_DurationNonNegative ==
    \A i \in 1..Len(videos) : videos[i].duration >= 0


\* C20: the persisted records only grow: every step keeps each existing
\* record, with unchanged fields, at its place; the arrival of a request at
\* the gate and the listing GET leave the store unchanged.
C20_RecordsOnlyGrow ==
    [][/\ Len(videos') >= Len(videos)
       /\ SubSeq(videos', 1, Len(videos)) = videos
       /\ \A c \in Clients :
            /\ (reqs[c].stage = "idle" /\ reqs'[c].stage # "idle")
                    => videos' = videos
            /\ (Answers(c) /\ reqs'[c].req.method = "GET")
                    => videos' = videos]_vars

C20_Witness ==
    /\ reqs["c1"].stage = "done"
    /\ reqs["c1"].handled
    /\ reqs["c1"].req.method = "GET"
    /\ reqs["c1"].resp.status = 200
    /\ Len(reqs["c1"].resp.videos) = 2
    /\ Len(videos) = 2


(***************************************************************************)
(* The upload page's claims, continued.                                    *)
(***************************************************************************)
\* The answer the page's metadata request got is a failure.
Phase2Failed ==
    /\ reqs["page"].stage = "done"
    /\ \/ reqs["page"].resp.kind # "json"
       \/ reqs["page"].resp.status < 200
       \/ reqs["page"].resp.status > 299

HandlerInFlight(c) == reqs[c].stage \in {"create", "find"}

\* C22: handlers running concurrently share no mutable in-process state
\* that one of them depends on: no step takes the shared Prisma client from
\* connected to disconnected while the handler of another request, which
\* awaits that client, is in flight.
C22_NoSharedMutableState ==
    [][(prisma.connected /\ ~prisma'.connected)
        => \A c \in Clients : HandlerInFlight(c) => reqs'[c] # reqs[c]]_vars


\* The statuses the metadata endpoint may answer with.
EndpointStatuses == {201, 400, 409, 500}

\* The alert is a message about a failed upload.
FailureMessage(alert) ==
    /\ alert.t = "string"
    /\ startsWith(alert.s, <<"U","p","l","o","a","d"," ","f","a","i","l","e","d",":"," ">>)
    /\ Len(alert.s) > Len(<<"U","p","l","o","a","d"," ","f","a","i","l","e","d",":"," ">>)

\* C23: no failure is left unhandled: the metadata endpoint answers every
\* payload and every persistence outcome with a status among 201, 400, 409
\* and 500; every run of handleSubmit ends either in its success path or in
\* its catch block, and the catch block raises a message for the user.
C23_NoUnhandledFault ==
    /\ \A b \in Bodies :
            POST_validate(b).kind = "respond"
            => POST_validate(b).resp.status \in EndpointStatuses
    /\ \A e \in DbFaults \cup {UniqueViolation} :
            POST_catch(e).status \in EndpointStatuses
    /\ [](\A c \in Clients :
            (reqs[c].stage = "done" /\ reqs[c].handled
             /\ reqs[c].req.method = "POST")
            => reqs[c].resp.status \in EndpointStatuses)
    /\ [][page'.resetTimers > page.resetTimers
            => FailureMessage(page'.alert)]_vars
    /\ [][(InFlight /\ ~InFlight')
            => \/ /\ page'.resetTimers = page.resetTimers + 1
                  /\ FailureMessage(page'.alert)
               \/ /\ reqs["page"].stage = "done"
                  /\ reqs["page"].resp.status = 201
                  /\ page'.redirectTimer
                  /\ page'.alert = NULL]_vars

C23_Witness ==
    /\ page.pc = "ready"
    /\ page.alert = JStr(<<"U","p","l","o","a","d"," ","f","a","i","l","e","d",":"," ","D","a","t","a","b","a","s","e"," ","s","a","v","e"," ","f","a","i","l","e","d",":"," ","V","i","d","e","o"," ","w","i","t","h"," ","t","h","i","s"," ","p","u","b","l","i","c"," ","I","D"," ","a","l","r","e","a","d","y"," ","e","x","i","s","t","s">>)
    /\ Len(videos) = 1
    /\ Len(host.uploads) = 2
    /\ reqs["page"].stage = "idle"


(***************************************************************************)
(* The access gate's claims, continued.                                    *)
(***************************************************************************)
\* C24: the gate produces no redirect loop: the target of a redirect is
\* /home for a signed-in caller and /signin for a signed-out one, and the
\* request to that target with the same session proceeds, so every chain
\* of redirects ends after one redirect.
C24_NoRedirectLoop ==
    /\ Len(nav.chain) <= 2
    /\ (Answered /\ nav.resp.kind = "redirect")
        => /\ Len(nav.chain) = 1
           /\ nav.resp.location
                = (IF SignedIn THEN <<"/","h","o","m","e">>
                   ELSE <<"/","s","i","g","n","i","n">>)
    /\ Len(nav.chain) = 2 => nav.resp.kind = "next"

C24_Witness ==
    /\ Len(nav.chain) = 2
    /\ SignedIn
    /\ nav.chain[1] = <<"/","s","i","g","n","i","n">>
    /\ nav.chain[2] = <<"/","h","o","m","e">>
    /\ nav.resp.kind = "next"


(***************************************************************************)
(* The upload page's claims: the reset timer and the selected file.        *)
(***************************************************************************)
\* C25: whenever isUploading is true the displayed uploadProgress is
\* uploadingToHost or savingMetadata; the reset timer of an earlier failed
\* run does not set it back to idle while a later run is in flight.
C25_ActiveWhileUploading ==
    state.isUploading
    => state.uploadProgress \in {UPLOAD_STATES.UPLOADING_TO_CLOUDINARY,
                                 UPLOAD_STATES.SAVING_TO_DATABASE}


(***************************************************************************)
(* The claims about the gate in front of the metadata endpoint.            *)
(***************************************************************************)
\* The request of client c comes from a caller who is not signed in.
Unauthenticated(req) == req.userId = NULL

\* C26: no record is created for an unauthenticated caller: the gate runs
\* for /api/video-upload and answers every unauthenticated POST itself (a
\* redirect or a 401), the request never reaches the handler, and every
\* record is created by the request of a signed-in caller.
C26_NoRecordForUnauthenticated ==
    /\ matcher_api(<<"/","a","p","i","/","v","i","d","e","o","-","u","p","l","o","a","d">>)
    /\ [](\A c \in Clients :
            (reqs[c].stage # "idle" /\ reqs[c].req.method = "POST"
             /\ Unauthenticated(reqs[c].req))
            => /\ reqs[c].stage = "done"
               /\ ~reqs[c].handled
               /\ \/ reqs[c].resp.kind = "redirect"
                  \/ reqs[c].resp.kind = "json" /\ reqs[c].resp.status = 401)
    /\ [][videos' # videos
            => \E c \in Clients :
                /\ reqs[c].stage = "create"
                /\ reqs'[c].stage = "done"
                /\ ~Unauthenticated(reqs[c].req)]_vars

C26_Witness ==
    /\ reqs["c1"].stage = "done"
    /\ reqs["c1"].req.method = "POST"
    /\ Unauthenticated(reqs["c1"].req)
    /\ ValidPayload(reqs["c1"].req.body)
    /\ ~reqs["c1"].handled
    /\ Len(videos) = 1


\* The alerts of a rejected selection.
SizeAlert == JStr(<<"F","i","l","e"," ","s","i","z","e"," ","s","h","o","u","l","d"," ","b","e"," ","l","e","s","s"," ","t","h","a","n"," ","7","0","M","B">>)
TypeAlert == JStr(<<"P","l","e","a","s","e"," ","s","e","l","e","c","t"," ","a"," ","v","a","l","i","d"," ","v","i","d","e","o"," ","f","i","l","e">>)

\* C27: the selected file held in state is always null or a file that
\* passes validateVideoFile, and a rejected selection (the step that raises
\* the alert of validateVideoFile) leaves the stored file, the title and
\* the description unchanged.
C27_StoredFileIsValid ==
    /\ [](state.file # NULL
            => /\ validateVideoFile(state.file).ok
               /\ ~Oversized(state.file)
               /\ ~NotVideo(state.file))
    /\ [][page'.alert \in {SizeAlert, TypeAlert}
            => /\ state'.file = state.file
               /\ state'.title = state.title
               /\ state'.description = state.description
               /\ page'.input = NULL]_vars

C27_Witness ==
    /\ page.alert = SizeAlert
    /\ state.file # NULL
    /\ state.title = <<" ","t"," ">>
    /\ state.description = <<"d">>
    /\ page.input = NULL

\* C28: the size ceiling is inclusive: validateVideoFile accepts a video
\* file of exactly 70*1024*1024 bytes, and a file is rejected for its size
\* exactly when its size is greater than 70*1024*1024; the selection that
\* applies it stores no larger file and raises the size alert only with
\* the file refused.
C28_CeilingInclusive ==
    /\ \A f \in Files :
        /\ (f.size = 70 * 1024 * 1024 /\ ~NotVideo(f))
                => validateVideoFile(f).ok
        /\ f.size >= 70 * 1024 * 1024 + 1 => ~validateVideoFile(f).ok
        /\ f.size > 70 * 1024 * 1024
            <=> /\ ~validateVideoFile(f).ok
                /\ JStr(validateVideoFile(f).message) = SizeAlert
    /\ [](/\ page.input # NULL => page.input.size <= 70 * 1024 * 1024
          /\ state.file # NULL => state.file.size <= 70 * 1024 * 1024
          /\ page.alert = SizeAlert => page.input = NULL)

C28_Witness ==
    /\ state.file # NULL
    /\ state.file.size = 73400320
    /\ page.input = state.file
    /\ page.alert = NULL
    /\ page.pc = "ready"

====
